---- MODULE Spec2Model ----
(***************************************************************************)
(* The patient booking bot (Echo.py): the ConversationHandler state        *)
(* machine, the storage helpers it calls and the slot computation.         *)
(*                                                                         *)
(* Time is counted in minutes of local time (Asia/Kolkata has no DST), an  *)
(* instant is the number of minutes since 00:00 of day 0.  A message text  *)
(* is a record [core, pad]: the characters typed and whether white space   *)
(* surrounds them, which is all str.strip() and int() can tell apart.      *)
(***************************************************************************)
EXTENDS Integers, FiniteSets, Sequences, TLC

VARIABLES
    state,          \* ConversationHandler: the conversation state of each chat
    user_data,      \* context.user_data of each chat (a dict)
    kbd,            \* per chat: the buttons of the newest message with a keyboard
    profiles,       \* table profiles
    appointments,   \* table appointments
    now,            \* the wall clock, datetime.now(LOCAL_TZ)
    dbUp,           \* whether psycopg2.connect succeeds
    last,           \* per chat: the handler that ran last and what it answered
    handled,        \* number of updates handled so far
    gen,            \* a call of generate_time_slots: its arguments and result
    csv,            \* Nexus: whether doctors.csv and appointments.csv exist
    ret,            \* a run of save_new_profile and find_profile_by_phone calls
    pending,        \* per chat: the make_booking call that is between two storage calls
    sent            \* per chat: what display_records of Nexus sent last

vars == <<state, user_data, kbd, last, handled, profiles, appointments, now, dbUp,
          gen, csv, ret, pending, sent>>

-----------------------------------------------------------------------------
(* Bounds of the model *)

TickMinutes == 20       \* the clock advances in steps of this many minutes
MaxTicks == 1           \* number of clock steps explored
MaxAppts == 2           \* rows the appointments table can hold
MaxUpdates == 12        \* updates the bot handles in one run

(* Program constants *)

DefaultStartHour == 9
DefaultEndHour == 18
DefaultInterval == 15

DayMinutes == 24 * 60
StartOfClock == 9 * 60
MaxNow == StartOfClock + MaxTicks * TickMinutes

-----------------------------------------------------------------------------
(* Values *)

Sessions == {"u1", "u2"}

END == "END"
States == {"ENTRY_POINT", "GETTING_NAME", "GETTING_AGE", "GETTING_PHONE_NEW",
           "GETTING_PHONE_REGULAR", "CHOOSING_SPECIALTY", "CHOOSING_DOCTOR",
           "CHOOSING_SLOT", "POST_BOOKING", "CONFIRM_EXISTING_PROFILE"}

Txt(c) == [core |-> c, pad |-> FALSE]

\* Python's None where a text is expected: no message has an empty text
None == Txt("")
Padded(c) == [core |-> c, pad |-> TRUE]

\* str.strip()
strip(t) == [t EXCEPT !.pad = FALSE]

\* int(): white space around the digits is accepted, anything else raises
DigitValue == [c \in {"30", "41"} |-> IF c = "30" THEN 30 ELSE 41]
int_ok(t) == t.core \in DOMAIN DigitValue
int(t) == DigitValue[t.core]

\* dict operations on context.user_data
Empty == [k \in {} |-> k]
Put(d, k, v) == [x \in (DOMAIN d) \cup {k} |-> IF x = k THEN v ELSE d[x]]
Get(d, k) == IF k \in DOMAIN d THEN d[k] ELSE None

\* datetime.date() of an instant, and the bounds of its local day
date(t) == t \div DayMinutes

\* start_of_day_local with the time of day kept (no datetime.combine)
start_of_day_local_not_combined(day) == day

start_of_day_local(day) == date(day) * DayMinutes
end_of_day_local(day) == date(day) * DayMinutes + (DayMinutes - 1)

\* the rows of the tables specialties and doctors, which the bot only reads
SpecialtyRows == {"Cardiology", "Dermatology"}
DoctorRows == {[DoctorID |-> 1, DoctorName |-> "Rao", Specialty |-> "Cardiology"],
               [DoctorID |-> 2, DoctorName |-> "Sen", Specialty |-> "Cardiology"]}

\* what the users type
TypedNames == {Txt("Zoya")}
TypedAges == {Txt("30"), Txt("abc")}
TypedPhones(s) == IF s = "u1" THEN {Txt("111"), Padded("111"), Txt("333")}
                  ELSE {Txt("111"), Txt("222")}

\* the rows of the table profiles when the bot starts
StoredProfiles == {[PhoneNumber |-> Txt("111"), PatientName |-> Txt("Asha"), Age |-> 41],
                   [PhoneNumber |-> Txt("222"), PatientName |-> Txt("Ravi"), Age |-> 41]}

\* an inline button: its callback_data, split in its fields
Btn(kind, sp, d, t) == [kind |-> kind, sp |-> sp, doctor |-> d, at |-> t]
Plain(kind) == Btn(kind, "", 0, 0)


-----------------------------------------------------------------------------
(* Storage helpers.  conn is the result of get_db_connection().            *)

\* get_db_connection: a connection, or None when the server is unreachable
get_db_connection == dbUp

get_specialties_from_db(conn) == IF conn THEN SpecialtyRows ELSE {}

get_doctors_by_specialty(conn, selected_specialty) ==
    IF conn THEN {d \in DoctorRows : d.Specialty = selected_specialty} ELSE {}

\* the rows fetchone() can return; empty when the function returns None
get_doctor_by_id(conn, doctor_id_to_find) ==
    IF conn THEN {d \in DoctorRows : d.DoctorID = doctor_id_to_find} ELSE {}

\* slot_loop with "while current_time <= end_time"
RECURSIVE slot_loop_inclusive(_, _, _, _)
slot_loop_inclusive(current_time, end_time, interval_minutes, slots) ==
    IF current_time <= end_time
    THEN slot_loop_inclusive(current_time + interval_minutes, end_time,
                             interval_minutes, Append(slots, current_time))
    ELSE slots

RECURSIVE slot_loop(_, _, _, _)
slot_loop(current_time, end_time, interval_minutes, slots) ==
    IF current_time < end_time
    THEN slot_loop(current_time + interval_minutes, end_time, interval_minutes,
                   Append(slots, current_time))
    ELSE slots

generate_time_slots(day, start_hour, end_hour, interval_minutes) ==
    LET start_time == date(day) * DayMinutes + start_hour * 60
        end_time == date(day) * DayMinutes + end_hour * 60
    IN  slot_loop(start_time, end_time, interval_minutes, <<>>)

get_booked_slots(conn, apps, doctor_id, day) ==
    IF conn
    THEN {a.AppointmentDateTime : a \in
            {r \in apps : /\ r.DoctorID = doctor_id
                          /\ r.AppointmentDateTime >= start_of_day_local(day)
                          /\ r.AppointmentDateTime <= end_of_day_local(day)}}
    ELSE {}

\* book_appointment without the rollback: the row of a failed INSERT stays
book_appointment_no_rollback(conn, insert_ok, apps, doctor_id, patient_phone, slot_time) ==
    LET row == [id |-> Cardinality(apps) + 1, DoctorID |-> doctor_id,
                PatientPhoneNumber |-> patient_phone,
                AppointmentDateTime |-> slot_time]
    IN  IF conn /\ Cardinality(apps) < MaxAppts
        THEN <<insert_ok, apps \cup {row}>>
        ELSE <<FALSE, apps>>

\* book_appointment on a table with a uniqueness constraint on the patient,
\* the doctor and the day: the INSERT of a second row raises
book_appointment_unique_triple(conn, insert_ok, apps, doctor_id, patient_phone, slot_time) ==
    IF /\ conn /\ insert_ok /\ Cardinality(apps) < MaxAppts
       /\ ~\E r \in apps : /\ r.PatientPhoneNumber = patient_phone
                            /\ r.DoctorID = doctor_id
                            /\ date(r.AppointmentDateTime) = date(slot_time)
    THEN <<TRUE, apps \cup {[id |-> Cardinality(apps) + 1,
                             DoctorID |-> doctor_id,
                             PatientPhoneNumber |-> patient_phone,
                             AppointmentDateTime |-> slot_time]}>>
    ELSE <<FALSE, apps>>

\* the INSERT raises when the server rejects it (insert_ok = FALSE) and when
\* the table of the model is full; the result is <<returned value, table>>
book_appointment(conn, insert_ok, apps, doctor_id, patient_phone, slot_time) ==
    IF conn /\ insert_ok /\ Cardinality(apps) < MaxAppts
    THEN <<TRUE, apps \cup {[id |-> Cardinality(apps) + 1,
                             DoctorID |-> doctor_id,
                             PatientPhoneNumber |-> patient_phone,
                             AppointmentDateTime |-> slot_time]}>>
    ELSE <<FALSE, apps>>

\* the rows fetchone() can return; empty when the function returns None
find_profile_by_phone(conn, profs, phone_number) ==
    IF conn
    THEN {[PatientName |-> p.PatientName, Age |-> p.Age] : p \in
            {r \in profs : r.PhoneNumber = strip(phone_number)}}
    ELSE {}

\* INSERT ... ON CONFLICT (PhoneNumber) DO UPDATE; int(age) raising is caught
save_new_profile(conn, profs, phone_number, name, age) ==
    IF conn /\ int_ok(age)
    THEN {r \in profs : r.PhoneNumber # phone_number}
            \cup {[PhoneNumber |-> phone_number, PatientName |-> name,
                   Age |-> int(age)]}
    ELSE profs

\* check_existing_appointment comparing the instant, not the day
check_existing_appointment_same_slot(conn, apps, patient_phone, doctor_id, day) ==
    IF conn
    THEN {r \in apps : /\ r.PatientPhoneNumber = patient_phone
                       /\ r.DoctorID = doctor_id
                       /\ r.AppointmentDateTime = day}
    ELSE {}

\* the rows fetchone() can return; empty when the function returns None
check_existing_appointment(conn, apps, patient_phone, doctor_id, day) ==
    IF conn
    THEN {r \in apps : /\ r.PatientPhoneNumber = patient_phone
                       /\ r.DoctorID = doctor_id
                       /\ r.AppointmentDateTime >= start_of_day_local(day)
                       /\ r.AppointmentDateTime <= end_of_day_local(day)}
    ELSE {}

-----------------------------------------------------------------------------
(* Updates, keyboards and the dispatch of ConversationHandler *)

StartOverText == Txt("Start Over")

Update(type, text, data) == [type |-> type, text |-> text, data |-> data]
TextUpdate(t) == Update("text", t, Plain(""))
CommandUpdate(c) == Update("command", Txt(c), Plain(""))
CallbackUpdate(b) == Update("callback", Txt(""), b)

NoUpdate == Update("none", Txt(""), Plain(""))
\* the record of a handled update: the handler, the state it was dispatched in,
\* the update, the outcome rendered and the time the rendering reports
Event(s, h, u, out, kb, at) ==
    [h |-> h, from |-> state[s], u |-> u, out |-> out, at |-> at]

Range(seq) == {seq[i] : i \in 1..Len(seq)}

\* query.edit_message_text: the keyboard of the message pressed is replaced
Edit(k, kb) == kb

\* reply_text / send_message: a new message below; the users press the buttons
\* of the newest message that carries a keyboard
Reply(k, kb) == IF kb = {} THEN k ELSE kb

\* the answer goes where the update came from: an edit of the message whose
\* button was pressed, or a new message after a text
Answer(k, u, kb) == IF u.type = "callback" THEN Edit(k, kb) ELSE Reply(k, kb)

\* the users press only the slots of 09:15 and 09:30, and any slot
\* offered at closing time
PressedSlots == {1, 2, 36}
SlotIndex(t) == ((t % DayMinutes) - DefaultStartHour * 60) \div DefaultInterval
Pressed(b) == b.kind = "book" => SlotIndex(b.at) \in PressedSlots

TextsFor(s, st) ==
    CASE st = "GETTING_NAME" -> TypedNames
      [] st = "GETTING_AGE" -> TypedAges
      [] st \in {"GETTING_PHONE_NEW", "GETTING_PHONE_REGULAR"} -> TypedPhones(s)
      [] st = END -> {StartOverText}
      [] OTHER -> {Txt("hello")}

\* the updates the user of chat s can send in the current state
Updates(s) ==
    {TextUpdate(t) : t \in TextsFor(s, state[s])}
      \cup {CommandUpdate("/start"), CommandUpdate("/cancel")}
      \cup {CallbackUpdate(b) : b \in {x \in kbd[s] : Pressed(x)}}

IsText(u) == u.type = "text"
IsCallback(u, kinds) == u.type = "callback" /\ u.data.kind \in kinds

\* entry_points of the ConversationHandler
EntryPoint(u) ==
    IF \/ (u.type = "command" /\ u.text = Txt("/start"))
       \/ (u.type = "text" /\ u.text = StartOverText)
    THEN "start" ELSE "none"

\* states: the first handler of the state whose filter matches
StateHandler(st, u) ==
    CASE st = "ENTRY_POINT" /\ IsCallback(u, {"new_user"}) -> "ask_for_name"
      [] st = "ENTRY_POINT" /\ IsCallback(u, {"regular_user"}) -> "ask_for_phone_regular"
      [] st = "GETTING_NAME" /\ IsText(u) -> "get_name_and_ask_age"
      [] st = "GETTING_AGE" /\ IsText(u) -> "get_age_and_ask_phone"
      [] st = "GETTING_PHONE_NEW" /\ IsText(u) -> "get_phone_and_register"
      [] st = "GETTING_PHONE_REGULAR" /\ IsText(u) -> "check_phone_and_proceed"
      [] st = "CONFIRM_EXISTING_PROFILE" /\ IsCallback(u, {"continue_yes", "continue_no"})
            -> "handle_existing_profile_confirmation"
      [] st = "CHOOSING_DOCTOR" /\ IsCallback(u, {"specialty"}) -> "choose_doctor"
      [] st = "CHOOSING_SLOT" /\ IsCallback(u, {"doctor", "next_day"}) -> "choose_slot_router"
      [] st = "CHOOSING_SLOT" /\ IsCallback(u, {"book"}) -> "make_booking"
      [] st = "CHOOSING_SLOT" /\ IsCallback(u, {"show_today"}) -> "show_today_slots_again"
      [] st = "CHOOSING_SLOT" /\ IsCallback(u, {"specialty"}) -> "choose_doctor"
      [] st = "POST_BOOKING" /\ IsCallback(u, {"start_over_inline"}) -> "show_specialties"
      [] st = "POST_BOOKING" /\ IsCallback(u, {"end_session"}) -> "finish_session"
      [] OTHER -> "none"

\* fallbacks that route every update no state handler matches to cancel
Fallback_routing_to_cancel(u) ==
    IF IsCallback(u, {"cancel_flow"}) THEN "cancel_flow" ELSE "cancel"

\* fallbacks of the ConversationHandler
Fallback(u) ==
    CASE u.type = "command" /\ u.text = Txt("/cancel") -> "cancel"
      [] IsCallback(u, {"cancel_flow"}) -> "cancel_flow"
      [] OTHER -> "none"

\* ConversationHandler.check_update: entry points when no conversation is
\* running, else the handlers of the state and then the fallbacks
Dispatch(st, u) ==
    IF st = END THEN EntryPoint(u)
    ELSE IF StateHandler(st, u) # "none" THEN StateHandler(st, u)
    ELSE Fallback(u)

-----------------------------------------------------------------------------
(* The handlers.  Each action is one update of chat s handled to its end.  *)

StartKeyboard == {Plain("new_user"), Plain("regular_user"), Plain("cancel_flow")}
ConfirmKeyboard == {Plain("continue_yes"), Plain("continue_no")}
ConflictKeyboard == {Plain("end_session")}
BookedKeyboard == {Plain("start_over_inline"), Plain("end_session")}

Step(s, st, ud, ms, e) ==
    /\ handled < MaxUpdates
    /\ state' = [state EXCEPT ![s] = st]
    /\ user_data' = [user_data EXCEPT ![s] = ud]
    /\ kbd' = [kbd EXCEPT ![s] = ms]
    /\ last' = [last EXCEPT ![s] = e]
    /\ handled' = handled + 1

\* a handler that raises: the conversation state is kept, nothing is rendered
Raised(s, h, u, ud) ==
    Step(s, state[s], ud, kbd[s], Event(s, h, u, "raised", {}, 0))

start(s, u) ==
    /\ Dispatch(state[s], u) = "start"
    /\ Step(s, "ENTRY_POINT", user_data[s], Reply(kbd[s], StartKeyboard),
            Event(s, "start", u, "", StartKeyboard, 0))
    /\ UNCHANGED <<profiles, appointments, now, dbUp, gen, csv, ret, pending, sent>>

ask_for_name(s, u) ==
    /\ Dispatch(state[s], u) = "ask_for_name"
    /\ Step(s, "GETTING_NAME", user_data[s], Edit(kbd[s], {}),
            Event(s, "ask_for_name", u, "", {}, 0))
    /\ UNCHANGED <<profiles, appointments, now, dbUp, gen, csv, ret, pending, sent>>

get_name_and_ask_age(s, u) ==
    /\ Dispatch(state[s], u) = "get_name_and_ask_age"
    /\ Step(s, "GETTING_AGE", Put(user_data[s], "name_for_reg", u.text), kbd[s],
            Event(s, "get_name_and_ask_age", u, "", {}, 0))
    /\ UNCHANGED <<profiles, appointments, now, dbUp, gen, csv, ret, pending, sent>>

get_age_and_ask_phone(s, u) ==
    /\ Dispatch(state[s], u) = "get_age_and_ask_phone"
    /\ Step(s, "GETTING_PHONE_NEW", Put(user_data[s], "age_for_reg", u.text), kbd[s],
            Event(s, "get_age_and_ask_phone", u, "", {}, 0))
    /\ UNCHANGED <<profiles, appointments, now, dbUp, gen, csv, ret, pending, sent>>

\* show_specialties: the state it returns and the keyboard it renders
show_specialties_result(conn) ==
    LET specialties == get_specialties_from_db(conn)
    IN  IF specialties = {}
        THEN [next |-> END, kb |-> {}]
        ELSE [next |-> "CHOOSING_DOCTOR",
              kb |-> {Btn("specialty", sp, 0, 0) : sp \in specialties}
                        \cup {Plain("cancel_flow")}]

get_phone_and_register(s, u) ==
    /\ Dispatch(state[s], u) = "get_phone_and_register"
    /\ LET phone_number == u.text
           found == find_profile_by_phone(get_db_connection, profiles, phone_number)
       IN  IF found # {}
           THEN /\ \E profile \in found :
                     Step(s, "CONFIRM_EXISTING_PROFILE",
                          Put(Put(user_data[s], "existing_profile", profile),
                              "existing_phone", phone_number),
                          Reply(kbd[s], ConfirmKeyboard),
                          Event(s, "get_phone_and_register", u, "existing",
                                ConfirmKeyboard, 0))
                /\ UNCHANGED profiles
           ELSE IF {"name_for_reg", "age_for_reg"} \subseteq DOMAIN user_data[s]
           THEN LET name == user_data[s]["name_for_reg"]
                    age == user_data[s]["age_for_reg"]
                    shown == show_specialties_result(get_db_connection)
                IN  /\ profiles' = save_new_profile(get_db_connection, profiles,
                                                    phone_number, name, age)
                    /\ Step(s, shown.next,
                            Put(Put(user_data[s], "patient_name", name),
                                "patient_phone", phone_number),
                            Reply(kbd[s], shown.kb),
                            Event(s, "get_phone_and_register", u, "registered",
                                  shown.kb, 0))
           ELSE /\ Raised(s, "get_phone_and_register", u, user_data[s])
                /\ UNCHANGED profiles
    /\ UNCHANGED <<appointments, now, dbUp, gen, csv, ret, pending, sent>>

handle_existing_profile_confirmation(s, u) ==
    /\ Dispatch(state[s], u) = "handle_existing_profile_confirmation"
    /\ IF u.data.kind = "continue_yes"
       THEN IF {"existing_profile", "existing_phone"} \subseteq DOMAIN user_data[s]
            THEN LET profile == user_data[s]["existing_profile"]
                     phone == user_data[s]["existing_phone"]
                     patient_name == profile.PatientName
                     shown == show_specialties_result(get_db_connection)
                 IN  Step(s, shown.next,
                          Put(Put(user_data[s], "patient_name", patient_name),
                              "patient_phone", phone),
                          Edit(kbd[s], shown.kb),
                          Event(s, "handle_existing_profile_confirmation", u,
                                "continue_yes", shown.kb, 0))
            ELSE Raised(s, "handle_existing_profile_confirmation", u, user_data[s])
       ELSE Step(s, "GETTING_PHONE_NEW", user_data[s], Edit(kbd[s], {}),
                 Event(s, "handle_existing_profile_confirmation", u,
                       "continue_no", {}, 0))
    /\ UNCHANGED <<profiles, appointments, now, dbUp, gen, csv, ret, pending, sent>>

ask_for_phone_regular(s, u) ==
    /\ Dispatch(state[s], u) = "ask_for_phone_regular"
    /\ Step(s, "GETTING_PHONE_REGULAR", user_data[s], Edit(kbd[s], {}),
            Event(s, "ask_for_phone_regular", u, "", {}, 0))
    /\ UNCHANGED <<profiles, appointments, now, dbUp, gen, csv, ret, pending, sent>>

check_phone_and_proceed(s, u) ==
    /\ Dispatch(state[s], u) = "check_phone_and_proceed"
    /\ LET phone_number == u.text
           found == find_profile_by_phone(get_db_connection, profiles, phone_number)
           shown == show_specialties_result(get_db_connection)
       IN  IF found # {}
           THEN \E profile \in found :
                    Step(s, shown.next,
                         Put(Put(user_data[s], "patient_name", profile.PatientName),
                             "patient_phone", phone_number),
                         Reply(kbd[s], shown.kb),
                         Event(s, "check_phone_and_proceed", u, "found", shown.kb, 0))
           ELSE Step(s, "GETTING_PHONE_REGULAR", user_data[s], kbd[s],
                     Event(s, "check_phone_and_proceed", u, "not_registered", {}, 0))
    /\ UNCHANGED <<profiles, appointments, now, dbUp, gen, csv, ret, pending, sent>>

show_specialties(s, u) ==
    /\ Dispatch(state[s], u) = "show_specialties"
    /\ LET shown == show_specialties_result(get_db_connection)
       IN  Step(s, shown.next, user_data[s], Answer(kbd[s], u, shown.kb),
                Event(s, "show_specialties", u, "", shown.kb, 0))
    /\ UNCHANGED <<profiles, appointments, now, dbUp, gen, csv, ret, pending, sent>>

choose_doctor(s, u) ==
    /\ Dispatch(state[s], u) = "choose_doctor"
    /\ LET selected_specialty == u.data.sp
           doctors == get_doctors_by_specialty(get_db_connection, selected_specialty)
           ud == Put(user_data[s], "selected_specialty", selected_specialty)
           kb == {Btn("doctor", "", d.DoctorID, 0) : d \in doctors}
                    \cup {Plain("cancel_flow")}
       IN  IF doctors = {}
           THEN Step(s, END, ud, Edit(kbd[s], {}),
                     Event(s, "choose_doctor", u, "no_doctors", {}, 0))
           ELSE Step(s, "CHOOSING_SLOT", ud, Edit(kbd[s], kb),
                     Event(s, "choose_doctor", u, "", kb, 0))
    /\ UNCHANGED <<profiles, appointments, now, dbUp, gen, csv, ret, pending, sent>>

\* available_slots with "slot >= now_aware"
available_slots_not_strict(conn, apps, now_aware, doctor_id, day_to_show) ==
    LET is_today == (date(day_to_show) = date(now_aware))
        all_slots == generate_time_slots(day_to_show, DefaultStartHour,
                                         DefaultEndHour, DefaultInterval)
        booked_slots == get_booked_slots(conn, apps, doctor_id, day_to_show)
    IN  {slot \in Range(all_slots) :
            /\ slot \notin booked_slots
            /\ (IF is_today THEN slot >= now_aware ELSE TRUE)}

\* the slots display_slots offers for doctor_id on the day of day_to_show
available_slots(conn, apps, now_aware, doctor_id, day_to_show) ==
    LET is_today == (date(day_to_show) = date(now_aware))
        all_slots == generate_time_slots(day_to_show, DefaultStartHour,
                                         DefaultEndHour, DefaultInterval)
        booked_slots == get_booked_slots(conn, apps, doctor_id, day_to_show)
    IN  {slot \in Range(all_slots) :
            /\ slot \notin booked_slots
            /\ (IF is_today THEN slot > now_aware ELSE TRUE)}

\* the keyboard display_slots renders
display_slots(conn, apps, now_aware, ud, day_to_show) ==
    LET doctor_id == ud["selected_doctor_id"]
        selected_specialty == ud["selected_specialty"]
        is_today == (date(day_to_show) = date(now_aware))
    IN  {Btn("book", "", doctor_id, slot) :
            slot \in available_slots(conn, apps, now_aware, doctor_id, day_to_show)}
          \cup (IF is_today
                THEN {Btn("next_day", "", doctor_id, 0)}
                ELSE {Btn("show_today", "", doctor_id, 0),
                      Btn("specialty", selected_specialty, 0, 0)})
          \cup {Plain("cancel_flow")}

choose_slot_router(s, u) ==
    /\ Dispatch(state[s], u) = "choose_slot_router"
    /\ LET ud == Put(user_data[s], "selected_doctor_id", u.data.doctor)
           day_to_show == IF u.data.kind = "doctor" THEN now ELSE now + DayMinutes
       IN  IF "selected_specialty" \in DOMAIN ud
           THEN LET kb == display_slots(get_db_connection, appointments, now, ud,
                                        day_to_show)
                IN  Step(s, "CHOOSING_SLOT", ud, Edit(kbd[s], kb),
                         Event(s, "choose_slot_router", u, "", kb, date(day_to_show)))
           ELSE Raised(s, "choose_slot_router", u, ud)
    /\ UNCHANGED <<profiles, appointments, now, dbUp, gen, csv, ret, pending, sent>>

show_today_slots_again(s, u) ==
    /\ Dispatch(state[s], u) = "show_today_slots_again"
    /\ LET ud == Put(user_data[s], "selected_doctor_id", u.data.doctor)
           day_to_show == now
       IN  IF "selected_specialty" \in DOMAIN ud
           THEN LET kb == display_slots(get_db_connection, appointments, now, ud,
                                        day_to_show)
                IN  Step(s, "CHOOSING_SLOT", ud, Edit(kbd[s], kb),
                         Event(s, "show_today_slots_again", u, "", kb,
                               date(day_to_show)))
           ELSE Raised(s, "show_today_slots_again", u, ud)
    /\ UNCHANGED <<profiles, appointments, now, dbUp, gen, csv, ret, pending, sent>>

\* the Conflict branch ending the session as the BookingFailed branch does
conflict_answer_clearing(s, u, existing) ==
    Step(s, END, Empty, Edit(kbd[s], {}),
         Event(s, "make_booking", u, "Conflict", {}, existing.AppointmentDateTime))

\* the Conflict branch of make_booking: the booking held is rendered
conflict_answer(s, u, existing) ==
    Step(s, "POST_BOOKING", user_data[s], Edit(kbd[s], ConflictKeyboard),
         Event(s, "make_booking", u, "Conflict", ConflictKeyboard,
               existing.AppointmentDateTime))

make_booking(s, u) ==
    /\ Dispatch(state[s], u) = "make_booking"
    /\ LET patient_phone == Get(user_data[s], "patient_phone")
           doctor_id == u.data.doctor
           slot_time == u.data.at
           existing_appointment ==
               check_existing_appointment(get_db_connection, appointments,
                                          patient_phone, doctor_id, slot_time)
           doctor_details == get_doctor_by_id(get_db_connection, doctor_id)
       IN  IF doctor_details = {}
           THEN /\ Raised(s, "make_booking", u, user_data[s])
                /\ UNCHANGED appointments
           ELSE IF existing_appointment # {}
           THEN /\ \E existing \in existing_appointment :
                     conflict_answer(s, u, existing)
                /\ UNCHANGED appointments
           ELSE \E insert_ok \in BOOLEAN :
                  LET booked == book_appointment(get_db_connection, insert_ok,
                                                 appointments, doctor_id,
                                                 patient_phone, slot_time)
                  IN  /\ appointments' = booked[2]
                      /\ IF booked[1]
                         THEN Step(s, "POST_BOOKING", user_data[s],
                                   Reply(Edit(kbd[s], {}), BookedKeyboard),
                                   Event(s, "make_booking", u, "Booked",
                                         BookedKeyboard, slot_time))
                         ELSE Step(s, END, Empty, Edit(kbd[s], {}),
                                   Event(s, "make_booking", u, "BookingFailed",
                                         {}, 0))
    /\ UNCHANGED <<profiles, now, dbUp, gen, csv, ret, pending, sent>>

finish_session(s, u) ==
    /\ Dispatch(state[s], u) = "finish_session"
    /\ Step(s, END, Empty, Edit(kbd[s], {}),
            Event(s, "finish_session", u, "", {}, 0))
    /\ UNCHANGED <<profiles, appointments, now, dbUp, gen, csv, ret, pending, sent>>

cancel_flow(s, u) ==
    /\ Dispatch(state[s], u) = "cancel_flow"
    /\ Step(s, END, Empty, Edit(kbd[s], {}),
            Event(s, "cancel_flow", u, "", {}, 0))
    /\ UNCHANGED <<profiles, appointments, now, dbUp, gen, csv, ret, pending, sent>>

\* cancel without context.user_data.clear()
cancel_keeping_data(s, u) ==
    /\ Dispatch(state[s], u) = "cancel"
    /\ Step(s, END, user_data[s], kbd[s], Event(s, "cancel", u, "", {}, 0))
    /\ UNCHANGED <<profiles, appointments, now, dbUp, gen, csv, ret, pending, sent>>

cancel(s, u) ==
    /\ Dispatch(state[s], u) = "cancel"
    /\ Step(s, END, Empty, kbd[s], Event(s, "cancel", u, "", {}, 0))
    /\ UNCHANGED <<profiles, appointments, now, dbUp, gen, csv, ret, pending, sent>>

\* an update no handler matches is dropped by the ConversationHandler
unhandled(s, u) ==
    /\ Dispatch(state[s], u) = "none"
    /\ UNCHANGED vars

-----------------------------------------------------------------------------
(* The environment *)

Tick ==
    /\ now + TickMinutes <= MaxNow
    /\ now' = now + TickMinutes
    /\ UNCHANGED <<state, user_data, kbd, last, handled, profiles, appointments, dbUp, gen, csv, ret, pending, sent>>

DbFail ==
    /\ dbUp
    /\ dbUp' = FALSE
    /\ UNCHANGED <<state, user_data, kbd, last, handled, profiles, appointments, now, gen, csv, ret, pending, sent>>

DbRecover ==
    /\ ~dbUp
    /\ dbUp' = TRUE
    /\ UNCHANGED <<state, user_data, kbd, last, handled, profiles, appointments, now, gen, csv, ret, pending, sent>>

-----------------------------------------------------------------------------
(* The bot *)

DOCTORS_CSV == "doctors.csv"
APPOINTMENTS_CSV == "appointments.csv"
FilesPresent == [f \in {DOCTORS_CSV, APPOINTMENTS_CSV} |-> TRUE]

\* no save_new_profile or find_profile_by_phone call made yet
NoRun == [calls |-> 0, fn |-> "", phone |-> None, name |-> None, age |-> None,
          looked |-> Txt("-"), found |-> {}]

\* no make_booking call in progress
NoPending == [pc |-> "idle", u |-> NoUpdate, conn |-> TRUE, existing |-> {},
              doctor |-> {}]

\* display_records has sent nothing
NothingSent == [text |-> "", listed |-> <<>>, total |-> 0, document |-> FALSE,
                day |-> 0]

NoCall == [start_hour |-> DefaultStartHour, end_hour |-> DefaultEndHour,
           interval_minutes |-> DefaultInterval, returned |-> FALSE, slots |-> <<>>]

Init ==
    /\ state = [s \in Sessions |-> END]
    /\ user_data = [s \in Sessions |-> Empty]
    /\ kbd = [s \in Sessions |-> {}]
    /\ profiles = StoredProfiles
    /\ appointments = {}
    /\ now = StartOfClock
    /\ dbUp = TRUE
    /\ last = [s \in Sessions |->
                [h |-> "", from |-> END, u |-> NoUpdate, out |-> "", at |-> 0]]
    /\ handled = 0
    /\ gen = NoCall
    /\ csv = FilesPresent
    /\ ret = NoRun
    /\ pending = [s \in Sessions |-> NoPending]
    /\ sent = [s \in Sessions |-> NothingSent]

Next ==
    \/ \E s \in Sessions : \E u \in Updates(s) : start(s, u)
    \/ \E s \in Sessions : \E u \in Updates(s) : ask_for_name(s, u)
    \/ \E s \in Sessions : \E u \in Updates(s) : get_name_and_ask_age(s, u)
    \/ \E s \in Sessions : \E u \in Updates(s) : get_age_and_ask_phone(s, u)
    \/ \E s \in Sessions : \E u \in Updates(s) : get_phone_and_register(s, u)
    \/ \E s \in Sessions : \E u \in Updates(s) : handle_existing_profile_confirmation(s, u)
    \/ \E s \in Sessions : \E u \in Updates(s) : ask_for_phone_regular(s, u)
    \/ \E s \in Sessions : \E u \in Updates(s) : check_phone_and_proceed(s, u)
    \/ \E s \in Sessions : \E u \in Updates(s) : show_specialties(s, u)
    \/ \E s \in Sessions : \E u \in Updates(s) : choose_doctor(s, u)
    \/ \E s \in Sessions : \E u \in Updates(s) : choose_slot_router(s, u)
    \/ \E s \in Sessions : \E u \in Updates(s) : show_today_slots_again(s, u)
    \/ \E s \in Sessions : \E u \in Updates(s) : make_booking(s, u)
    \/ \E s \in Sessions : \E u \in Updates(s) : finish_session(s, u)
    \/ \E s \in Sessions : \E u \in Updates(s) : cancel_flow(s, u)
    \/ \E s \in Sessions : \E u \in Updates(s) : cancel(s, u)
    \/ \E s \in Sessions : \E u \in Updates(s) : unhandled(s, u)
    \/ Tick

Spec == Init /\ [][Next]_vars

-----------------------------------------------------------------------------
(* generate_time_slots on its own: every window and interval of the sets   *)
(* below, the day being the day of the clock                               *)

GenHours == 8..20
GenIntervals == {15, 20, 25, 45, 60, 90}

InitGen ==
    /\ state = [s \in Sessions |-> END]
    /\ user_data = [s \in Sessions |-> Empty]
    /\ kbd = [s \in Sessions |-> {}]
    /\ last = [s \in Sessions |->
                [h |-> "", from |-> END, u |-> NoUpdate, out |-> "", at |-> 0]]
    /\ handled = 0
    /\ profiles = StoredProfiles
    /\ appointments = {}
    /\ now = StartOfClock
    /\ dbUp = TRUE
    /\ \E sh \in GenHours, eh \in GenHours, im \in GenIntervals :
          gen = [start_hour |-> sh, end_hour |-> eh, interval_minutes |-> im,
                 returned |-> FALSE, slots |-> <<>>]
    /\ csv = FilesPresent
    /\ ret = NoRun
    /\ pending = [s \in Sessions |-> NoPending]
    /\ sent = [s \in Sessions |-> NothingSent]

call_generate_time_slots ==
    /\ ~gen.returned
    /\ gen' = [gen EXCEPT !.returned = TRUE,
                          !.slots = generate_time_slots(now, gen.start_hour,
                                        gen.end_hour, gen.interval_minutes)]
    /\ UNCHANGED <<state, user_data, kbd, last, handled, profiles, appointments,
                   now, dbUp, csv, ret, pending, sent>>

NextGen == call_generate_time_slots

SpecGen == InitGen /\ [][NextGen]_vars

-----------------------------------------------------------------------------
(* save_new_profile and find_profile_by_phone on their own: runs of calls  *)
(* with the phones, names and ages below, the server reachable             *)

MaxCalls == 3           \* calls made in one run

ProfilePhones == {Txt("333"), Padded("333")}
ProfileNames == {Txt("Zoya"), Txt("Asha")}
ProfileAges == {Txt("30"), Txt("41"), Txt("abc")}

InitProfile ==
    /\ state = [s \in Sessions |-> END]
    /\ user_data = [s \in Sessions |-> Empty]
    /\ kbd = [s \in Sessions |-> {}]
    /\ last = [s \in Sessions |->
                [h |-> "", from |-> END, u |-> NoUpdate, out |-> "", at |-> 0]]
    /\ handled = 0
    /\ profiles \in {{}, StoredProfiles}
    /\ appointments = {}
    /\ now = StartOfClock
    /\ dbUp = TRUE
    /\ gen = NoCall
    /\ csv = FilesPresent
    /\ ret = NoRun
    /\ pending = [s \in Sessions |-> NoPending]
    /\ sent = [s \in Sessions |-> NothingSent]

call_save_new_profile ==
    /\ ret.calls < MaxCalls
    /\ \E phone_number \in ProfilePhones, name \in ProfileNames, age \in ProfileAges :
          /\ profiles' = save_new_profile(get_db_connection, profiles,
                                          phone_number, name, age)
          /\ ret' = [calls |-> ret.calls + 1, fn |-> "save_new_profile",
                     phone |-> phone_number, name |-> name, age |-> age,
                     looked |-> None, found |-> {}]
    /\ UNCHANGED <<state, user_data, kbd, last, handled, appointments, now, dbUp,
                   gen, csv, pending, sent>>

call_find_profile_by_phone ==
    /\ ret.calls < MaxCalls
    /\ \E phone_number \in ProfilePhones :
          ret' = [ret EXCEPT !.calls = @ + 1, !.fn = "find_profile_by_phone",
                             !.looked = phone_number,
                             !.found = find_profile_by_phone(get_db_connection,
                                                             profiles, phone_number)]
    /\ UNCHANGED <<state, user_data, kbd, last, handled, profiles, appointments,
                   now, dbUp, gen, csv, pending, sent>>

NextProfile ==
    \/ call_save_new_profile
    \/ call_find_profile_by_phone

SpecProfile == InitProfile /\ [][NextProfile]_vars

-----------------------------------------------------------------------------
(* The provider bot (Nexus.py): its files, its helpers and its dispatch.   *)
(* A provider chat uses state, user_data, kbd and last as a patient chat   *)
(* does; the two bots share no storage.                                    *)

Providers == {"d1"}

NexusStates == {"AUTHENTICATING", "VIEWING_OPTIONS", "GETTING_DATE",
                "POST_VIEWING_CHOICE"}

\* str.lower() on the ids of the model
LowerOf == [c \in {"D1", "d1", "D2", "d2", "zz"} |->
              CASE c = "D1" -> "d1" [] c = "D2" -> "d2" [] OTHER -> c]
lower(t) == [t EXCEPT !.core = LowerOf[@]]

\* the rows of doctors.csv and of appointments.csv, in file order
DoctorsCsvRows ==
    <<[DoctorID |-> Txt("D1"), DoctorName |-> Txt("Rao")],
      [DoctorID |-> Txt("D2"), DoctorName |-> Txt("Sen")]>>
AppointmentsCsvRows ==
    <<[DoctorID |-> Txt("D1"), AppointmentDateTime |-> 9 * 60 + 30,
       PatientName |-> Txt("Asha")],
      [DoctorID |-> Txt("D2"), AppointmentDateTime |-> 9 * 60 + 15,
       PatientName |-> Txt("Zoya")],
      [DoctorID |-> Txt("D1"), AppointmentDateTime |-> 9 * 60 + 15,
       PatientName |-> Txt("Ravi")],
      [DoctorID |-> Txt("D1"), AppointmentDateTime |-> DayMinutes + 9 * 60 + 15,
       PatientName |-> Txt("Asha")]>>

\* what the provider types as an id, and as a date
TypedIds == {Txt("D1"), Txt("d1"), Padded("D1"), Txt("zz")}
DateTexts == {Txt("today"), Txt("tomorrow"), Txt("Sep 15"), Txt("banana")}

\* reading as if an absent file still held its rows
rows_of_ignoring_absence(files, name, rows) == rows

\* the rows read from a file; open() raises FileNotFoundError when it is absent
rows_of(files, name, rows) == IF files[name] THEN rows ELSE <<>>

\* the first row whose id matches, as a set; empty when the function returns
\* None, which it also does when doctors.csv is absent
find_doctor_by_id(files, doctor_id) ==
    LET rows == rows_of(files, DOCTORS_CSV, DoctorsCsvRows)
        hits == {i \in 1..Len(rows) :
                    lower(strip(rows[i].DoctorID)) = lower(strip(doctor_id))}
    IN  IF hits = {} THEN {}
        ELSE {rows[CHOOSE i \in hits : \A j \in hits : i <= j]}

\* list.sort(key=time): a stable insertion of each record after the records
\* that are not later
RECURSIVE insert_by_time(_, _)
insert_by_time(sorted, record) ==
    IF sorted = <<>> THEN <<record>>
    ELSE IF Head(sorted).time <= record.time
         THEN <<Head(sorted)>> \o insert_by_time(Tail(sorted), record)
         ELSE <<record>> \o sorted

RECURSIVE sort_by_time(_)
sort_by_time(appointments_list) ==
    IF appointments_list = <<>> THEN <<>>
    ELSE insert_by_time(sort_by_time(SubSeq(appointments_list, 1,
                                            Len(appointments_list) - 1)),
                        appointments_list[Len(appointments_list)])

\* the records of the doctor on the day, sorted; empty when appointments.csv
\* is absent
get_appointments_for_doctor(files, doctor_id, day) ==
    LET rows == rows_of(files, APPOINTMENTS_CSV, AppointmentsCsvRows)
        Matches(row) == /\ strip(row.DoctorID) = strip(doctor_id)
                        /\ date(row.AppointmentDateTime) = day
        picked == SelectSeq(rows, Matches)
        appointments_list ==
            [i \in 1..Len(picked) |->
                [time |-> picked[i].AppointmentDateTime,
                 patient_name |-> picked[i].PatientName]]
    IN  sort_by_time(appointments_list)

\* dateparser.parse: the instant a text means; empty when it returns None
dateparser_parse(user_input, now_naive) ==
    CASE user_input = Txt("today") -> {now_naive}
      [] user_input = Txt("tomorrow") -> {now_naive + DayMinutes}
      [] user_input = Txt("Sep 15") -> {5 * DayMinutes}
      [] OTHER -> {}

\* the updates the provider of chat s can send in the current state
NexusTextsFor(st) ==
    CASE st = "AUTHENTICATING" -> TypedIds
      [] st = "GETTING_DATE" -> DateTexts
      [] st = END -> {StartOverText}
      [] OTHER -> {Txt("hello")}

NexusUpdates(s) ==
    {TextUpdate(t) : t \in NexusTextsFor(state[s])}
      \cup {CommandUpdate("/start"), CommandUpdate("/cancel")}
      \cup {CallbackUpdate(b) : b \in kbd[s]}

\* entry_points of the ConversationHandler of Nexus
NexusEntryPoint(u) ==
    IF \/ (u.type = "command" /\ u.text = Txt("/start"))
       \/ (u.type = "text" /\ u.text = StartOverText)
    THEN "start" ELSE "none"

\* states of the ConversationHandler of Nexus
NexusStateHandler(st, u) ==
    CASE st = "AUTHENTICATING" /\ IsText(u) -> "authenticate_doctor"
      [] st = "VIEWING_OPTIONS" /\ IsCallback(u, {"view_today", "view_tomorrow"})
            -> "view_records_router"
      [] st = "VIEWING_OPTIONS" /\ IsCallback(u, {"view_specific_date"})
            -> "ask_for_specific_date"
      [] st = "VIEWING_OPTIONS" /\ IsCallback(u, {"end_session"}) -> "end_session"
      [] st = "GETTING_DATE" /\ IsText(u) -> "get_specific_date"
      [] st = "POST_VIEWING_CHOICE" /\ IsCallback(u, {"view_again"})
            -> "show_viewing_options"
      [] st = "POST_VIEWING_CHOICE" /\ IsCallback(u, {"end_session"}) -> "end_session"
      [] OTHER -> "none"

\* fallbacks of the ConversationHandler of Nexus
NexusFallback(u) ==
    IF u.type = "command" /\ u.text = Txt("/start") THEN "start" ELSE "none"

NexusDispatch(st, u) ==
    IF st = END THEN NexusEntryPoint(u)
    ELSE IF NexusStateHandler(st, u) # "none" THEN NexusStateHandler(st, u)
    ELSE NexusFallback(u)

ViewingKeyboard == {Plain("view_today"), Plain("view_tomorrow"),
                    Plain("view_specific_date"), Plain("end_session")}
PostViewingKeyboard == {Plain("view_again"), Plain("end_session")}

Nexus_start(s, u) ==
    /\ NexusDispatch(state[s], u) = "start"
    /\ Step(s, "AUTHENTICATING", user_data[s], kbd[s],
            Event(s, "start", u, "", {}, 0))
    /\ UNCHANGED <<profiles, appointments, now, dbUp, gen, csv, ret, pending, sent>>

\* authenticate_doctor showing the menu also when the id is not found
authenticate_doctor_admitting_failures(s, u) ==
    /\ NexusDispatch(state[s], u) = "authenticate_doctor"
    /\ LET doctor_id == u.text
           found == find_doctor_by_id(csv, doctor_id)
       IN  IF found # {}
           THEN \E doctor_profile \in found :
                    Step(s, "VIEWING_OPTIONS",
                         Put(Put(user_data[s], "doctor_id", doctor_id),
                             "doctor_name", doctor_profile.DoctorName),
                         Reply(kbd[s], ViewingKeyboard),
                         Event(s, "authenticate_doctor", u, "hello",
                               ViewingKeyboard, 0))
           ELSE Step(s, "VIEWING_OPTIONS", user_data[s],
                     Reply(kbd[s], ViewingKeyboard),
                     Event(s, "authenticate_doctor", u, "failed",
                           ViewingKeyboard, 0))
    /\ UNCHANGED <<profiles, appointments, now, dbUp, gen, csv, ret, pending, sent>>

authenticate_doctor(s, u) ==
    /\ NexusDispatch(state[s], u) = "authenticate_doctor"
    /\ LET doctor_id == u.text
           found == find_doctor_by_id(csv, doctor_id)
       IN  IF found # {}
           THEN \E doctor_profile \in found :
                    Step(s, "VIEWING_OPTIONS",
                         Put(Put(user_data[s], "doctor_id", doctor_id),
                             "doctor_name", doctor_profile.DoctorName),
                         Reply(kbd[s], ViewingKeyboard),
                         Event(s, "authenticate_doctor", u, "hello",
                               ViewingKeyboard, 0))
           ELSE Step(s, "AUTHENTICATING", user_data[s], kbd[s],
                     Event(s, "authenticate_doctor", u, "failed", {}, 0))
    /\ UNCHANGED <<profiles, appointments, now, dbUp, gen, csv, ret, pending, sent>>

show_viewing_options(s, u) ==
    /\ NexusDispatch(state[s], u) = "show_viewing_options"
    /\ Step(s, "VIEWING_OPTIONS", user_data[s], Answer(kbd[s], u, ViewingKeyboard),
            Event(s, "show_viewing_options", u, "", ViewingKeyboard, 0))
    /\ UNCHANGED <<profiles, appointments, now, dbUp, gen, csv, ret, pending, sent>>

\* display_records: the summary, the document and the follow-up menu
display_records(s, h, u, date_to_view) ==
    IF {"doctor_id", "doctor_name"} \subseteq DOMAIN user_data[s]
    THEN LET doctor_id == user_data[s]["doctor_id"]
             appointments_list == get_appointments_for_doctor(csv, doctor_id,
                                                              date_to_view)
             total_appointments == Len(appointments_list)
         IN  /\ sent' = [sent EXCEPT ![s] =
                          [text |-> IF appointments_list # <<>>
                                    THEN "Appointments for"
                                    ELSE "No appointments found for",
                           listed |-> appointments_list,
                           total |-> total_appointments,
                           document |-> (appointments_list # <<>>),
                           day |-> date_to_view]]
             /\ Step(s, "POST_VIEWING_CHOICE", user_data[s],
                     Reply(Answer(kbd[s], u, {}), PostViewingKeyboard),
                     Event(s, h, u, "records", PostViewingKeyboard, date_to_view))
    ELSE /\ Raised(s, h, u, user_data[s])
         /\ UNCHANGED sent

view_records_router(s, u) ==
    /\ NexusDispatch(state[s], u) = "view_records_router"
    /\ LET today == date(now)
           date_to_view == IF u.data.kind = "view_today" THEN today ELSE today + 1
       IN  display_records(s, "view_records_router", u, date_to_view)
    /\ UNCHANGED <<profiles, appointments, now, dbUp, gen, csv, ret, pending>>

ask_for_specific_date(s, u) ==
    /\ NexusDispatch(state[s], u) = "ask_for_specific_date"
    /\ Step(s, "GETTING_DATE", user_data[s], Edit(kbd[s], {}),
            Event(s, "ask_for_specific_date", u, "", {}, 0))
    /\ UNCHANGED <<profiles, appointments, now, dbUp, gen, csv, ret, pending, sent>>

\* get_specific_date asking for the date again when it cannot be parsed
get_specific_date_retrying(s, u) ==
    /\ NexusDispatch(state[s], u) = "get_specific_date"
    /\ LET user_input == u.text
           parsed == dateparser_parse(user_input, now)
       IN  IF parsed # {}
           THEN \E date_obj \in parsed :
                    display_records(s, "get_specific_date", u, date(date_obj))
           ELSE /\ Step(s, "GETTING_DATE", user_data[s], kbd[s],
                        Event(s, "get_specific_date", u, "unrecognized", {}, 0))
                /\ UNCHANGED sent
    /\ UNCHANGED <<profiles, appointments, now, dbUp, gen, csv, ret, pending>>

get_specific_date(s, u) ==
    /\ NexusDispatch(state[s], u) = "get_specific_date"
    /\ LET user_input == u.text
           parsed == dateparser_parse(user_input, now)
       IN  IF parsed # {}
           THEN \E date_obj \in parsed :
                    display_records(s, "get_specific_date", u, date(date_obj))
           ELSE /\ Step(s, "VIEWING_OPTIONS", user_data[s],
                        Reply(kbd[s], ViewingKeyboard),
                        Event(s, "get_specific_date", u, "unrecognized",
                              ViewingKeyboard, 0))
                /\ UNCHANGED sent
    /\ UNCHANGED <<profiles, appointments, now, dbUp, gen, csv, ret, pending>>

\* end_session without context.user_data.clear()
end_session_keeping_data(s, u) ==
    /\ NexusDispatch(state[s], u) = "end_session"
    /\ Step(s, END, user_data[s], Answer(kbd[s], u, {}),
            Event(s, "end_session", u, "", {}, 0))
    /\ UNCHANGED <<profiles, appointments, now, dbUp, gen, csv, ret, pending, sent>>

end_session(s, u) ==
    /\ NexusDispatch(state[s], u) = "end_session"
    /\ Step(s, END, Empty, Answer(kbd[s], u, {}),
            Event(s, "end_session", u, "", {}, 0))
    /\ UNCHANGED <<profiles, appointments, now, dbUp, gen, csv, ret, pending, sent>>

\* an update no handler of Nexus matches is dropped
Nexus_unhandled(s, u) ==
    /\ NexusDispatch(state[s], u) = "none"
    /\ UNCHANGED vars

\* the files are created and deleted outside the bot
file_removed(f) ==
    /\ csv[f]
    /\ csv' = [csv EXCEPT ![f] = FALSE]
    /\ UNCHANGED <<state, user_data, kbd, last, handled, profiles, appointments,
                   now, dbUp, gen, ret, pending, sent>>

file_restored(f) ==
    /\ ~csv[f]
    /\ csv' = [csv EXCEPT ![f] = TRUE]
    /\ UNCHANGED <<state, user_data, kbd, last, handled, profiles, appointments,
                   now, dbUp, gen, ret, pending, sent>>

\* the provider bot on its own
NoEvent == [h |-> "", from |-> END, u |-> NoUpdate, out |-> "", at |-> 0]

InitNexus ==
    /\ state = [s \in Providers |-> END]
    /\ user_data = [s \in Providers |-> Empty]
    /\ kbd = [s \in Providers |-> {}]
    /\ last = [s \in Providers |-> NoEvent]
    /\ handled = 0
    /\ profiles = StoredProfiles
    /\ appointments = {}
    /\ now = StartOfClock
    /\ dbUp = TRUE
    /\ gen = NoCall
    /\ csv = FilesPresent
    /\ ret = NoRun
    /\ pending = [s \in Providers |-> NoPending]
    /\ sent = [s \in Providers |-> NothingSent]

NextNexus ==
    \/ \E s \in Providers : \E u \in NexusUpdates(s) : Nexus_start(s, u)
    \/ \E s \in Providers : \E u \in NexusUpdates(s) : authenticate_doctor(s, u)
    \/ \E s \in Providers : \E u \in NexusUpdates(s) : show_viewing_options(s, u)
    \/ \E s \in Providers : \E u \in NexusUpdates(s) : view_records_router(s, u)
    \/ \E s \in Providers : \E u \in NexusUpdates(s) : ask_for_specific_date(s, u)
    \/ \E s \in Providers : \E u \in NexusUpdates(s) : get_specific_date(s, u)
    \/ \E s \in Providers : \E u \in NexusUpdates(s) : end_session(s, u)
    \/ \E s \in Providers : \E u \in NexusUpdates(s) : Nexus_unhandled(s, u)
    \/ \E f \in {DOCTORS_CSV, APPOINTMENTS_CSV} : file_removed(f)
    \/ \E f \in {DOCTORS_CSV, APPOINTMENTS_CSV} : file_restored(f)

SpecNexus == InitNexus /\ [][NextNexus]_vars

-----------------------------------------------------------------------------
(* Either bot, with one chat: the two bots are separate programs that share
   nothing.  A button of an earlier message stays in the chat and can be
   pressed in any state; an update that no handler matches is dropped, which
   is recorded as the event "none".                                          *)

Patients == {"u1"}
Chats == Patients \cup Providers

EarlierButtons(s) ==
    IF s \in Patients THEN {Btn("book", "", 1, StartOfClock + DefaultInterval)}
    ELSE {Plain("view_today")}

FlowUpdates(s) ==
    (IF s \in Patients THEN Updates(s) ELSE NexusUpdates(s))
      \cup {CallbackUpdate(b) : b \in EarlierButtons(s)}

dropped(s, u) ==
    /\ Dispatch(state[s], u) = "none"
    /\ Step(s, state[s], user_data[s], kbd[s], Event(s, "none", u, "dropped", {}, 0))
    /\ UNCHANGED <<profiles, appointments, now, dbUp, gen, csv, ret, pending, sent>>

Nexus_dropped(s, u) ==
    /\ NexusDispatch(state[s], u) = "none"
    /\ Step(s, state[s], user_data[s], kbd[s], Event(s, "none", u, "dropped", {}, 0))
    /\ UNCHANGED <<profiles, appointments, now, dbUp, gen, csv, ret, pending, sent>>

\* the chat of the bot that runs
Chat == DOMAIN state

InitFlows ==
    /\ \E c \in Chats : state = [s \in {c} |-> END]
    /\ user_data = [s \in Chat |-> Empty]
    /\ kbd = [s \in Chat |-> {}]
    /\ last = [s \in Chat |-> NoEvent]
    /\ handled = 0
    /\ profiles = StoredProfiles
    /\ appointments = {}
    /\ now = StartOfClock
    /\ dbUp = TRUE
    /\ gen = NoCall
    /\ csv = FilesPresent
    /\ ret = NoRun
    /\ pending = [s \in Chat |-> NoPending]
    /\ sent = [s \in Chat |-> NothingSent]

NextFlows ==
    \/ \E s \in Patients \cap Chat : \E u \in FlowUpdates(s) : start(s, u)
    \/ \E s \in Patients \cap Chat : \E u \in FlowUpdates(s) : ask_for_name(s, u)
    \/ \E s \in Patients \cap Chat : \E u \in FlowUpdates(s) : get_name_and_ask_age(s, u)
    \/ \E s \in Patients \cap Chat : \E u \in FlowUpdates(s) : get_age_and_ask_phone(s, u)
    \/ \E s \in Patients \cap Chat : \E u \in FlowUpdates(s) : get_phone_and_register(s, u)
    \/ \E s \in Patients \cap Chat : \E u \in FlowUpdates(s) : handle_existing_profile_confirmation(s, u)
    \/ \E s \in Patients \cap Chat : \E u \in FlowUpdates(s) : ask_for_phone_regular(s, u)
    \/ \E s \in Patients \cap Chat : \E u \in FlowUpdates(s) : check_phone_and_proceed(s, u)
    \/ \E s \in Patients \cap Chat : \E u \in FlowUpdates(s) : show_specialties(s, u)
    \/ \E s \in Patients \cap Chat : \E u \in FlowUpdates(s) : choose_doctor(s, u)
    \/ \E s \in Patients \cap Chat : \E u \in FlowUpdates(s) : choose_slot_router(s, u)
    \/ \E s \in Patients \cap Chat : \E u \in FlowUpdates(s) : show_today_slots_again(s, u)
    \/ \E s \in Patients \cap Chat : \E u \in FlowUpdates(s) : make_booking(s, u)
    \/ \E s \in Patients \cap Chat : \E u \in FlowUpdates(s) : finish_session(s, u)
    \/ \E s \in Patients \cap Chat : \E u \in FlowUpdates(s) : cancel_flow(s, u)
    \/ \E s \in Patients \cap Chat : \E u \in FlowUpdates(s) : cancel(s, u)
    \/ \E s \in Patients \cap Chat : \E u \in FlowUpdates(s) : dropped(s, u)
    \/ \E s \in Providers \cap Chat : \E u \in FlowUpdates(s) : Nexus_start(s, u)
    \/ \E s \in Providers \cap Chat : \E u \in FlowUpdates(s) : authenticate_doctor(s, u)
    \/ \E s \in Providers \cap Chat : \E u \in FlowUpdates(s) : show_viewing_options(s, u)
    \/ \E s \in Providers \cap Chat : \E u \in FlowUpdates(s) : view_records_router(s, u)
    \/ \E s \in Providers \cap Chat : \E u \in FlowUpdates(s) : ask_for_specific_date(s, u)
    \/ \E s \in Providers \cap Chat : \E u \in FlowUpdates(s) : get_specific_date(s, u)
    \/ \E s \in Providers \cap Chat : \E u \in FlowUpdates(s) : end_session(s, u)
    \/ \E s \in Providers \cap Chat : \E u \in FlowUpdates(s) : Nexus_dropped(s, u)

SpecFlows == InitFlows /\ [][NextFlows]_vars

-----------------------------------------------------------------------------
(* make_booking in the steps of its storage calls.  Each of
   check_existing_appointment, get_doctor_by_id and book_appointment opens its
   own connection, so the server can become unreachable or reachable again
   between them, and the calls of two bookings served by two instances of the
   bot can interleave.  pending[s] is the position of the call of chat s.    *)

\* both chats have identified themselves with the phone 111 and look at the
\* slots of doctor 1 for today
SlotChoiceData ==
    Put(Put(Put(Put(Empty, "patient_name", Txt("Asha")),
                "patient_phone", Txt("111")),
            "selected_specialty", "Cardiology"),
        "selected_doctor_id", 1)

SlotChoiceKeyboard ==
    display_slots(TRUE, {}, StartOfClock, SlotChoiceData, StartOfClock)

SlotChoiceEvent ==
    [h |-> "choose_slot_router", from |-> "CHOOSING_SLOT",
     u |-> CallbackUpdate(Btn("doctor", "", 1, 0)), out |-> "",
     at |-> date(StartOfClock)]

\* the conflict lookup of make_booking
make_booking_check(s, u) ==
    /\ pending[s].pc = "idle"
    /\ handled < MaxUpdates
    /\ Dispatch(state[s], u) = "make_booking"
    /\ LET patient_phone == Get(user_data[s], "patient_phone")
           conn == get_db_connection
           existing_appointment ==
               check_existing_appointment(conn, appointments, patient_phone,
                                          u.data.doctor, u.data.at)
       IN  pending' = [pending EXCEPT ![s] =
                         [pc |-> IF existing_appointment # {} THEN "conflict"
                                 ELSE "checked",
                          u |-> u, conn |-> conn,
                          existing |-> existing_appointment, doctor |-> {}]]
    /\ UNCHANGED <<state, user_data, kbd, last, handled, profiles, appointments,
                   now, dbUp, gen, csv, ret, sent>>

\* the Conflict branch: the doctor is looked up and the booking held rendered
make_booking_conflict(s) ==
    /\ pending[s].pc = "conflict"
    /\ LET u == pending[s].u
           doctor_details == get_doctor_by_id(get_db_connection, u.data.doctor)
       IN  IF doctor_details = {}
           THEN Raised(s, "make_booking", u, user_data[s])
           ELSE \E existing \in pending[s].existing : conflict_answer(s, u, existing)
    /\ pending' = [pending EXCEPT ![s] = NoPending]
    /\ UNCHANGED <<profiles, appointments, now, dbUp, gen, csv, ret, sent>>

\* the doctor lookup before the insert; doctor_details['DoctorName'] raises
\* when the lookup returns None
make_booking_lookup(s) ==
    /\ pending[s].pc = "checked"
    /\ LET u == pending[s].u
           doctor_details == get_doctor_by_id(get_db_connection, u.data.doctor)
       IN  IF doctor_details = {}
           THEN /\ Raised(s, "make_booking", u, user_data[s])
                /\ pending' = [pending EXCEPT ![s] = NoPending]
           ELSE /\ pending' = [pending EXCEPT ![s].pc = "looked",
                                              ![s].doctor = doctor_details]
                /\ UNCHANGED <<state, user_data, kbd, last, handled>>
    /\ UNCHANGED <<profiles, appointments, now, dbUp, gen, csv, ret, sent>>

\* book_appointment and the answer
make_booking_insert(s) ==
    /\ pending[s].pc = "looked"
    /\ LET u == pending[s].u
           patient_phone == Get(user_data[s], "patient_phone")
           slot_time == u.data.at
       IN  \E insert_ok \in BOOLEAN :
             LET booked == book_appointment(get_db_connection, insert_ok,
                                            appointments, u.data.doctor,
                                            patient_phone, slot_time)
             IN  /\ appointments' = booked[2]
                 /\ IF booked[1]
                    THEN Step(s, "POST_BOOKING", user_data[s],
                              Reply(Edit(kbd[s], {}), BookedKeyboard),
                              Event(s, "make_booking", u, "Booked",
                                    BookedKeyboard, slot_time))
                    ELSE Step(s, END, Empty, Edit(kbd[s], {}),
                              Event(s, "make_booking", u, "BookingFailed", {}, 0))
    /\ pending' = [pending EXCEPT ![s] = NoPending]
    /\ UNCHANGED <<profiles, now, dbUp, gen, csv, ret, sent>>

InitSplit ==
    /\ state = [s \in Sessions |-> "CHOOSING_SLOT"]
    /\ user_data = [s \in Sessions |-> SlotChoiceData]
    /\ kbd = [s \in Sessions |-> SlotChoiceKeyboard]
    /\ last = [s \in Sessions |-> SlotChoiceEvent]
    /\ handled = 10
    /\ profiles = StoredProfiles
    /\ appointments = {}
    /\ now = StartOfClock
    /\ dbUp = TRUE
    /\ gen = NoCall
    /\ csv = FilesPresent
    /\ ret = NoRun
    /\ pending = [s \in Sessions |-> NoPending]
    /\ sent = [s \in Sessions |-> NothingSent]

NextSplit ==
    \/ \E s \in Sessions : \E u \in Updates(s) : make_booking_check(s, u)
    \/ \E s \in Sessions : make_booking_conflict(s)
    \/ \E s \in Sessions : make_booking_lookup(s)
    \/ \E s \in Sessions : make_booking_insert(s)
    \/ DbFail
    \/ DbRecover

SpecSplit == InitSplit /\ [][NextSplit]_vars

-----------------------------------------------------------------------------
(* The patient bot with one chat whose user registers more than once, typing
   different names and ages and a phone with a blank after it.               *)

RegisteringTexts(st) ==
    CASE st = "GETTING_NAME" -> {Txt("Zoya"), Txt("Mira")}
      [] st = "GETTING_AGE" -> {Txt("30"), Txt("41")}
      [] st \in {"GETTING_PHONE_NEW", "GETTING_PHONE_REGULAR"}
            -> {Txt("111"), Padded("333")}
      [] st = END -> {StartOverText}
      [] OTHER -> {Txt("hello")}

RegisteringUpdates(s) ==
    {TextUpdate(t) : t \in RegisteringTexts(state[s])}
      \cup {CommandUpdate("/start"), CommandUpdate("/cancel")}
      \cup {CallbackUpdate(b) : b \in {x \in kbd[s] : Pressed(x)}}

InitRegister ==
    /\ state = [s \in Patients |-> END]
    /\ user_data = [s \in Patients |-> Empty]
    /\ kbd = [s \in Patients |-> {}]
    /\ last = [s \in Patients |-> NoEvent]
    /\ handled = 0
    /\ profiles = StoredProfiles
    /\ appointments = {}
    /\ now = StartOfClock
    /\ dbUp = TRUE
    /\ gen = NoCall
    /\ csv = FilesPresent
    /\ ret = NoRun
    /\ pending = [s \in Patients |-> NoPending]
    /\ sent = [s \in Patients |-> NothingSent]

NextRegister ==
    \/ \E s \in Patients : \E u \in RegisteringUpdates(s) : start(s, u)
    \/ \E s \in Patients : \E u \in RegisteringUpdates(s) : ask_for_name(s, u)
    \/ \E s \in Patients : \E u \in RegisteringUpdates(s) : get_name_and_ask_age(s, u)
    \/ \E s \in Patients : \E u \in RegisteringUpdates(s) : get_age_and_ask_phone(s, u)
    \/ \E s \in Patients : \E u \in RegisteringUpdates(s) : get_phone_and_register(s, u)
    \/ \E s \in Patients : \E u \in RegisteringUpdates(s) : handle_existing_profile_confirmation(s, u)
    \/ \E s \in Patients : \E u \in RegisteringUpdates(s) : ask_for_phone_regular(s, u)
    \/ \E s \in Patients : \E u \in RegisteringUpdates(s) : check_phone_and_proceed(s, u)
    \/ \E s \in Patients : \E u \in RegisteringUpdates(s) : show_specialties(s, u)
    \/ \E s \in Patients : \E u \in RegisteringUpdates(s) : choose_doctor(s, u)
    \/ \E s \in Patients : \E u \in RegisteringUpdates(s) : choose_slot_router(s, u)
    \/ \E s \in Patients : \E u \in RegisteringUpdates(s) : show_today_slots_again(s, u)
    \/ \E s \in Patients : \E u \in RegisteringUpdates(s) : make_booking(s, u)
    \/ \E s \in Patients : \E u \in RegisteringUpdates(s) : finish_session(s, u)
    \/ \E s \in Patients : \E u \in RegisteringUpdates(s) : cancel_flow(s, u)
    \/ \E s \in Patients : \E u \in RegisteringUpdates(s) : cancel(s, u)
    \/ \E s \in Patients : \E u \in RegisteringUpdates(s) : unhandled(s, u)

SpecRegister == InitRegister /\ [][NextRegister]_vars

-----------------------------------------------------------------------------
(* The claims *)

patient_phone_of(s) == Get(user_data[s], "patient_phone")

SameTriple(a, b) ==
    /\ a.PatientPhoneNumber = b.PatientPhoneNumber
    /\ a.DoctorID = b.DoctorID
    /\ date(a.AppointmentDateTime) = date(b.AppointmentDateTime)

\* the appointments the patient of chat s holds with the doctor and on the day
\* of the slot button of update u
HeldFor(s, u) ==
    {a \in appointments : /\ a.PatientPhoneNumber = patient_phone_of(s)
                          /\ a.DoctorID = u.data.doctor
                          /\ date(a.AppointmentDateTime) = date(u.data.at)}

\* C1: with every make_booking handled in one step, the table appointments
\* never holds two rows for the same patient phone, doctor and local day.
C1_OneAppointmentPerTriple ==
    \A a \in appointments : \A b \in appointments : SameTriple(a, b) => a = b

\* C1 witness: two chats hold the same phone; one booked a doctor for a day,
\* the other then asked for the same doctor and day and was refused.
C1_Witness ==
    \E s1 \in Sessions : \E s2 \in Sessions \ {s1} :
        /\ patient_phone_of(s1) = patient_phone_of(s2)
        /\ last[s1].out = "Booked"
        /\ last[s2].out = "Conflict"
        /\ last[s1].u.data.doctor = last[s2].u.data.doctor
        /\ date(last[s1].u.data.at) = date(last[s2].u.data.at)
        /\ \E a \in appointments : a.AppointmentDateTime = last[s1].u.data.at

C3_ConflictKeepsSession ==
    [][\A s \in Sessions : \A u \in Updates(s) :
          (make_booking(s, u) /\ last'[s].out = "Conflict") =>
              /\ appointments' = appointments
              /\ state'[s] = "POST_BOOKING"
              /\ user_data'[s] = user_data[s]
              /\ {"patient_name", "patient_phone", "selected_specialty",
                  "selected_doctor_id"} \subseteq DOMAIN user_data'[s]]_vars

\* C3 witness: a chat refused with Conflict, in POST_BOOKING, its identity and
\* selections still in the session data.
C3_Witness ==
    \E s \in Sessions :
        /\ last[s].h = "make_booking"
        /\ last[s].out = "Conflict"
        /\ state[s] = "POST_BOOKING"
        /\ patient_phone_of(s) # None
        /\ "selected_doctor_id" \in DOMAIN user_data[s]
        /\ appointments # {}

\* C4: a make_booking whose insert fails adds no row, ends the conversation
\* and empties the session data; one whose insert succeeds adds exactly one
\* row, of the doctor and instant of the button and the phone of the session,
\* and leaves the chat in POST_BOOKING.  Without an appointment held for the
\* triple one of the two happens.
C4_InsertOutcome ==
    [][\A s \in Sessions : \A u \in Updates(s) :
          make_booking(s, u) =>
              /\ last'[s].out = "BookingFailed" =>
                    /\ appointments' = appointments
                    /\ state'[s] = END
                    /\ user_data'[s] = Empty
              /\ last'[s].out = "Booked" =>
                    /\ appointments \subseteq appointments'
                    /\ Cardinality(appointments') = Cardinality(appointments) + 1
                    /\ \A r \in appointments' \ appointments :
                          /\ r.DoctorID = u.data.doctor
                          /\ r.PatientPhoneNumber = patient_phone_of(s)
                          /\ r.AppointmentDateTime = u.data.at
                    /\ state'[s] = "POST_BOOKING"
              /\ HeldFor(s, u) = {} =>
                    last'[s].out \in {"Booked", "BookingFailed"}]_vars

\* C4 witness: one chat was told the booking failed and is at its end with
\* empty session data while the table had room, another chat's booking is
\* stored.
C4_Witness ==
    \E s1 \in Sessions : \E s2 \in Sessions \ {s1} :
        /\ last[s1].out = "BookingFailed"
        /\ state[s1] = END
        /\ user_data[s1] = Empty
        /\ Cardinality(appointments) < MaxAppts
        /\ last[s2].out = "Booked"
        /\ state[s2] = "POST_BOOKING"
        /\ \E r \in appointments : r.AppointmentDateTime = last[s2].u.data.at

NonTerminal == States \ {"CHOOSING_SPECIALTY"}

\* C5: in every state of a running conversation the /cancel command and the
\* cancel_flow button reach the cancel handlers, and these end the
\* conversation and empty the session data.
C5_CancelEndsAndClears ==
    /\ [](\A s \in Sessions :
            state[s] # END =>
                /\ state[s] \in NonTerminal
                /\ Dispatch(state[s], CommandUpdate("/cancel")) = "cancel"
                /\ Dispatch(state[s], CallbackUpdate(Plain("cancel_flow")))
                      = "cancel_flow")
    /\ [][\A s \in Sessions : \A u \in Updates(s) :
            (cancel(s, u) \/ cancel_flow(s, u)) =>
                /\ state'[s] = END
                /\ user_data'[s] = Empty]_vars

\* C5 witness: a conversation cancelled in CHOOSING_SLOT, where the session
\* data held the patient and the selections.
C5_Witness ==
    \E s \in Sessions :
        /\ last[s].h \in {"cancel", "cancel_flow"}
        /\ last[s].from = "CHOOSING_SLOT"
        /\ state[s] = END
        /\ user_data[s] = Empty

\* C6: for every window with start_hour < end_hour and every interval,
\* generate_time_slots returns exactly (end - start) / interval time points,
\* the k-th at start + k * interval, none of them a partial slot running past
\* end; 36 of them for 09:00-18:00 and 15 minutes.
C6_ExactSlotCount ==
    (gen.returned /\ gen.start_hour < gen.end_hour /\ gen.interval_minutes >= 1) =>
        LET n == Len(gen.slots)
            start_time == date(now) * DayMinutes + gen.start_hour * 60
            end_time == date(now) * DayMinutes + gen.end_hour * 60
        IN  /\ n * gen.interval_minutes = end_time - start_time
            /\ \A i \in 1..n :
                  /\ gen.slots[i] = start_time + (i - 1) * gen.interval_minutes
                  /\ gen.slots[i] + gen.interval_minutes <= end_time
            /\ (gen.start_hour = 9 /\ gen.end_hour = 18
                    /\ gen.interval_minutes = 15) => n = 36

\* the instants of the book buttons of a keyboard
Offered(kb) == {b.at : b \in {x \in kb : x.kind = "book"}}

\* C7: a rendering of the slots of a doctor for a day offers exactly the
\* generated slots S that are not in the booked set B and, on the current day
\* only, are strictly later than now: a subset of S, disjoint from B, and for
\* the next day all of S \ B.
C7_OfferedSlots ==
    [][\A s \in Sessions : \A u \in Updates(s) :
          ((choose_slot_router(s, u) \/ show_today_slots_again(s, u))
              /\ last'[s].out # "raised") =>
              LET day == IF u.data.kind = "next_day" THEN now + DayMinutes ELSE now
                  S == Range(generate_time_slots(day, DefaultStartHour,
                                                 DefaultEndHour, DefaultInterval))
                  B == get_booked_slots(get_db_connection, appointments,
                                        u.data.doctor, day)
                  offered == Offered(kbd'[s])
              IN  /\ offered = {t \in S : /\ t \notin B
                                          /\ (date(day) = date(now) => t > now)}
                  /\ offered \subseteq S
                  /\ offered \cap B = {}
                  /\ date(day) # date(now) => offered = S \ B]_vars

\* C7 witness: the slots of the current day rendered at 09:00, the free slot
\* at now left out, a later slot left out because it is booked, other slots
\* offered.
C7_Witness ==
    \E s \in Sessions :
        /\ last[s].h \in {"choose_slot_router", "show_today_slots_again"}
        /\ last[s].out # "raised"
        /\ last[s].at = date(now)
        /\ now % DayMinutes = 9 * 60
        /\ now \notin Offered(kbd[s])
        /\ \A a \in appointments : a.AppointmentDateTime # now
        /\ Offered(kbd[s]) # {}
        /\ \E a \in appointments :
              /\ a.DoctorID = last[s].u.data.doctor
              /\ a.AppointmentDateTime > now
              /\ date(a.AppointmentDateTime) = date(now)
              /\ a.AppointmentDateTime \notin Offered(kbd[s])

\* C8: with book buttons pressed only on rendered keyboards, every stored
\* appointment is at or after 09:00 and before 18:00 of its day and on the
\* 15-minute grid.
C8_AppointmentsOnGrid ==
    \A a \in appointments :
        LET minute == a.AppointmentDateTime % DayMinutes
        IN  /\ minute >= 9 * 60
            /\ minute < 18 * 60
            /\ (minute - 9 * 60) % 15 = 0

\* C8 witness: two appointments stored, one of the current day and one of the
\* next, the latter booked from a rendering of the next day.
C8_Witness ==
    /\ Cardinality(appointments) = 2
    /\ \E a \in appointments : date(a.AppointmentDateTime) = date(now)
    /\ \E s \in Sessions :
          /\ last[s].out = "Booked"
          /\ date(last[s].u.data.at) = date(now) + 1
          /\ \E a \in appointments : a.AppointmentDateTime = last[s].u.data.at

\* the stored profiles the lookup of a typed phone matches
MatchingProfiles(phone_number) ==
    {p \in profiles : p.PhoneNumber = strip(phone_number)}

\* C9: in GETTING_PHONE_REGULAR a phone without a stored profile keeps the chat
\* in GETTING_PHONE_REGULAR and sets no identity; a phone with a stored profile
\* sets the name and the phone of the session from that profile and goes on to
\* the choice of a specialty.
C9_RegularPhoneLookup ==
    [][\A s \in Sessions : \A u \in Updates(s) :
          check_phone_and_proceed(s, u) =>
              LET found == MatchingProfiles(u.text)
              IN  /\ found = {} =>
                        /\ state'[s] = "GETTING_PHONE_REGULAR"
                        /\ user_data'[s] = user_data[s]
                  /\ \A p \in found :
                        /\ state'[s] = "CHOOSING_DOCTOR"
                        /\ Get(user_data'[s], "patient_name") = p.PatientName
                        /\ Get(user_data'[s], "patient_phone") = p.PhoneNumber]_vars

\* C10: in GETTING_PHONE_NEW a phone that has a profile leads to
\* CONFIRM_EXISTING_PROFILE and writes no profile; there a refusal leads back to
\* GETTING_PHONE_NEW and an acceptance to the choice of a specialty with the
\* identity of the profile found; a phone without a profile stores the profile
\* of the phone, the typed name and the typed age and goes on to the choice of
\* a specialty.
C10_NewPhoneRegistration ==
    [][\A s \in Sessions : \A u \in Updates(s) :
          /\ (get_phone_and_register(s, u) /\ last'[s].out # "raised") =>
                LET found == MatchingProfiles(u.text)
                    name == Get(user_data[s], "name_for_reg")
                    age == Get(user_data[s], "age_for_reg")
                IN  /\ found # {} =>
                          /\ state'[s] = "CONFIRM_EXISTING_PROFILE"
                          /\ profiles' = profiles
                    /\ found = {} =>
                          /\ state'[s] = "CHOOSING_DOCTOR"
                          /\ \E p \in profiles' :
                                /\ p.PhoneNumber = u.text
                                /\ p.PatientName = name
                                /\ int_ok(age) => p.Age = int(age)
          /\ (handle_existing_profile_confirmation(s, u)
                  /\ last'[s].out # "raised") =>
                /\ u.data.kind = "continue_no" =>
                      state'[s] = "GETTING_PHONE_NEW"
                /\ u.data.kind = "continue_yes" =>
                      /\ state'[s] = "CHOOSING_DOCTOR"
                      /\ \E p \in profiles :
                            /\ p.PatientName = Get(user_data'[s], "patient_name")
                            /\ p.PhoneNumber = Get(user_data'[s], "patient_phone")]_vars

\* C11: after any run of save_new_profile and find_profile_by_phone calls no
\* two profiles share a phone, and a find_profile_by_phone of the phone of
\* the save_new_profile made last returns the name and the age of that call,
\* for a first save of the phone as for a later one.
C11_UpsertRoundTrip ==
    /\ \A p \in profiles : \A q \in profiles :
          p.PhoneNumber = q.PhoneNumber => p = q
    /\ (ret.fn = "find_profile_by_phone" /\ ret.looked = ret.phone) =>
          /\ ret.found # {}
          /\ \A r \in ret.found :
                /\ r.PatientName = ret.name
                /\ int_ok(ret.age) => r.Age = int(ret.age)

\* the rows of doctors.csv the authentication matches with a typed id
MatchingDoctors(doctor_id) ==
    {r \in Range(rows_of(csv, DOCTORS_CSV, DoctorsCsvRows)) :
        lower(strip(r.DoctorID)) = lower(strip(doctor_id))}

\* C12: in AUTHENTICATING an id that matches no doctor keeps the chat in
\* AUTHENTICATING and stores no identity, however often it happens; an id that
\* matches a doctor stores the id and the name of that doctor and leads to
\* VIEWING_OPTIONS.
C12_Authentication ==
    [][\A s \in Providers : \A u \in NexusUpdates(s) :
          authenticate_doctor(s, u) =>
              LET found == MatchingDoctors(u.text)
              IN  /\ found = {} =>
                        /\ state'[s] = "AUTHENTICATING"
                        /\ user_data'[s] = user_data[s]
                  /\ \A d \in found :
                        /\ state'[s] = "VIEWING_OPTIONS"
                        /\ Get(user_data'[s], "doctor_id") = d.DoctorID
                        /\ Get(user_data'[s], "doctor_name") = d.DoctorName]_vars

\* C13: in GETTING_DATE a text the date parser cannot parse moves the provider
\* back to VIEWING_OPTIONS and displays nothing; a text that parses displays
\* the records of the parsed date and moves to POST_VIEWING_CHOICE.
C13_DateInput ==
    [][\A s \in Providers : \A u \in NexusUpdates(s) :
          (state[s] = "GETTING_DATE" /\ get_specific_date(s, u)) =>
              LET parsed == dateparser_parse(u.text, now)
              IN  /\ parsed = {} => /\ state'[s] = "VIEWING_OPTIONS"
                                    /\ sent' = sent
                  /\ \A date_obj \in parsed :
                        /\ state'[s] = "POST_VIEWING_CHOICE"
                        /\ sent'[s].day = date(date_obj)
                        /\ sent'[s].listed =
                             get_appointments_for_doctor(csv,
                                 user_data[s]["doctor_id"], date(date_obj))]_vars

\* the records of "Sep 15" were displayed, and a later "banana" brought the
\* provider back to the menu without displaying anything
C13_Witness ==
    \E s \in Providers :
        /\ last[s].h = "get_specific_date"
        /\ last[s].out = "unrecognized"
        /\ last[s].u.text = Txt("banana")
        /\ state[s] = "VIEWING_OPTIONS"
        /\ sent[s].day = 5
        /\ sent[s].text = "No appointments found for"

\* C14: for every id text that passed authentication, display_records lists
\* exactly the stored appointments of that provider on the date, in ascending
\* time order, with a count equal to the number listed, and sends the export
\* document exactly when the list is not empty.
StoredAppointmentsOf(doctor_id, day) ==
    LET stored == Range(rows_of(csv, APPOINTMENTS_CSV, AppointmentsCsvRows))
        ids == {strip(d.DoctorID) : d \in
                   {r \in Range(DoctorsCsvRows) :
                       lower(strip(r.DoctorID)) = lower(strip(doctor_id))}}
    IN  {[time |-> r.AppointmentDateTime, patient_name |-> r.PatientName] :
            r \in {x \in stored : /\ strip(x.DoctorID) \in ids
                                  /\ date(x.AppointmentDateTime) = day}}

C14_RecordsDisplayed ==
    [][\A s \in Providers :
          (handled' = handled + 1 /\ last'[s].out = "records") =>
              LET listed == sent'[s].listed
                  expected == StoredAppointmentsOf(user_data[s]["doctor_id"],
                                                   sent'[s].day)
              IN  /\ Range(listed) = expected
                  /\ Len(listed) = Cardinality(expected)
                  /\ \A i \in 1..Len(listed) : \A j \in 1..Len(listed) :
                        i < j => listed[i].time <= listed[j].time
                  /\ sent'[s].total = Len(listed)
                  /\ sent'[s].document = (listed # <<>>)]_vars

\* C15: in the patient flow a conversation ends only when the user stops,
\* cancels or finishes it, or when make_booking reports BookingFailed; no other
\* handler ends it, also when a storage lookup returns nothing.
C15_OnlyBookingFailedEnds ==
    [][\A s \in Sessions :
          (state[s] # END /\ state'[s] = END) =>
              \/ last'[s].h \in {"cancel", "cancel_flow", "finish_session"}
              \/ (last'[s].h = "make_booking" /\ last'[s].out = "BookingFailed")]_vars

\* C16: in both flows the state of a conversation is always one of the
\* enumerated states or the terminal one, and an update that no handler of the
\* current state and no fallback matches (a slot-booking button in POST_BOOKING,
\* free text in CHOOSING_DOCTOR, free text or a stale menu button in the
\* provider flow) is dropped: state, session data and storage stay as they are.
FlowStates(s) == IF s \in Patients THEN States ELSE NexusStates

NoHandlerFor(s, st, u) ==
    \/ s \in Patients /\ st = "POST_BOOKING" /\ IsCallback(u, {"book"})
    \/ s \in Patients /\ st = "CHOOSING_DOCTOR" /\ IsText(u)
    \/ s \in Providers /\ st = "VIEWING_OPTIONS" /\ IsText(u)
    \/ s \in Providers /\ st = "POST_VIEWING_CHOICE" /\ IsCallback(u, {"view_today"})

C16_UnmatchedDropped ==
    /\ [](\A s \in Chat :
            /\ state[s] \in FlowStates(s) \cup {END}
            /\ NoHandlerFor(s, last[s].from, last[s].u) => last[s].h = "none")
    /\ [][\A s \in Chat :
            (last'[s].h = "none" /\ last'[s] # last[s]) =>
                /\ state'[s] = state[s]
                /\ user_data'[s] = user_data[s]
                /\ profiles' = profiles
                /\ appointments' = appointments
                /\ csv' = csv]_vars

\* a patient who has booked pressed the slot button of an earlier message
C16_Witness ==
    \E s \in Chat :
        /\ state[s] = "POST_BOOKING"
        /\ last[s].h = "none"
        /\ last[s].from = "POST_BOOKING"
        /\ IsCallback(last[s].u, {"book"})
        /\ appointments # {}
        /\ "patient_phone" \in DOMAIN user_data[s]

\* C19: with storage reachable, 'book another' in POST_BOOKING leads to the
\* specialty selection with the patient's name and phone unchanged and
\* 'finish' ends the conversation with the session data emptied; in the
\* provider flow 'view again' in POST_VIEWING_CHOICE leads to VIEWING_OPTIONS
\* with the authenticated identity unchanged and 'end' ends the conversation
\* with the session data emptied.
SameKeys(s, keys) ==
    \A k \in keys : /\ k \in DOMAIN user_data[s]
                    /\ k \in DOMAIN user_data'[s]
                    /\ user_data'[s][k] = user_data[s][k]

CommitByInsert(s) == make_booking_insert(s) /\ appointments' # appointments

C17_CheckedAttemptCommits ==
    \A s \in Sessions :
        (/\ pending[s].pc = "looked"
         /\ pending[s].conn
         /\ get_db_connection
         /\ handled < MaxUpdates
         /\ Cardinality(appointments) < MaxAppts) => ENABLED CommitByInsert(s)

\* two appointments of the same patient with the same doctor on the same day
C17_Witness ==
    \E a \in appointments : \E b \in appointments :
        /\ a # b
        /\ SameTriple(a, b)
        /\ \A s \in Sessions : last[s].out = "Booked"

\* C18: when the connection fails during the conflict lookup of make_booking,
\* that call inserts no appointment, also when the server is reachable again
\* before the insert.
C18_FailedCheckAborts ==
    [][\A s \in Sessions :
          (pending[s].pc = "looked" /\ ~pending[s].conn /\ make_booking_insert(s)) =>
              appointments' = appointments]_vars

\* C20: in the provider bot an absent doctors file makes find_doctor_by_id
\* return nothing and an absent appointments file makes
\* get_appointments_for_doctor return the empty list, and neither raises: an
\* authentication attempt then stays in AUTHENTICATING, and a display of
\* records shows 'no appointments' and moves to POST_VIEWING_CHOICE.
C20_AbsentFiles ==
    [][\A s \in Providers : \A u \in NexusUpdates(s) :
          /\ (~csv[DOCTORS_CSV] /\ authenticate_doctor(s, u)) =>
                /\ find_doctor_by_id(csv, u.text) = {}
                /\ last'[s].out = "failed"
                /\ state'[s] = "AUTHENTICATING"
                /\ user_data'[s] = user_data[s]
          /\ (/\ ~csv[APPOINTMENTS_CSV]
              /\ \/ view_records_router(s, u)
                 \/ (get_specific_date(s, u) /\ dateparser_parse(u.text, now) # {})) =>
                /\ \A id \in TypedIds : \A day \in 0..5 :
                      get_appointments_for_doctor(csv, id, day) = <<>>
                /\ last'[s].out = "records"
                /\ sent'[s].text = "No appointments found for"
                /\ sent'[s].listed = <<>>
                /\ ~sent'[s].document
                /\ state'[s] = "POST_VIEWING_CHOICE"]_vars

\* doctor D1 was shown 'no appointments' for today while appointments.csv was
\* absent, and with doctors.csv absent too the id D1 is no longer accepted
C20_Witness ==
    \E s \in Providers :
        /\ ~csv[DOCTORS_CSV]
        /\ ~csv[APPOINTMENTS_CSV]
        /\ last[s].h = "authenticate_doctor"
        /\ last[s].out = "failed"
        /\ last[s].u.text = Txt("D1")
        /\ state[s] = "AUTHENTICATING"
        /\ sent[s].text = "No appointments found for"
        /\ sent[s].day = date(StartOfClock)
        /\ Get(user_data[s], "doctor_id") = Txt("D1")

\* C21: for patients with different phones and any sequence of their events,
\* no two stored appointments have the same doctor and the same instant: a
\* slot booked by one patient is never also booked by another.
C21_SlotBookedOnce ==
    \A a \in appointments : \A b \in appointments :
        (/\ a.PatientPhoneNumber # b.PatientPhoneNumber
         /\ a.DoctorID = b.DoctorID
         /\ a.AppointmentDateTime = b.AppointmentDateTime) => a = b

\* C22: every appointment make_booking commits has an instant strictly later
\* than the instant of the commit, however much time passes between the
\* rendering of the slot buttons and the press of one.
C22_CommittedInFuture ==
    [][\A a \in appointments' \ appointments : a.AppointmentDateTime > now]_vars

\* C23: whenever a patient chat is in CHOOSING_DOCTOR, CHOOSING_SLOT or
\* POST_BOOKING its session data holds a patient phone and the table profiles
\* holds a profile with that phone (blanks around the typed phone aside), and
\* every stored appointment carries a phone that has a profile; for every text
\* the user can type as name, age and phone.
HasProfile(phone) == \E p \in profiles : p.PhoneNumber = strip(phone)

C23_IdentifiedPatient ==
    /\ \A s \in Sessions :
          state[s] \in {"CHOOSING_DOCTOR", "CHOOSING_SLOT", "POST_BOOKING"} =>
              /\ "patient_phone" \in DOMAIN user_data[s]
              /\ HasProfile(user_data[s]["patient_phone"])
    /\ \A a \in appointments : HasProfile(a.PatientPhoneNumber)

\* C24: every transition of the patient flow into the terminal state leaves
\* the session data empty: a chat whose conversation has ended holds no
\* patient identity, registration field or selection of that conversation.
C24_TerminalDataEmpty ==
    \A s \in Sessions : state[s] = END => user_data[s] = Empty

\* C26: no sequence of patient-flow events changes the name or the age of a
\* profile that exists in storage: a profile is written only for a phone
\* whose lookup found none, and confirming an existing profile discards the
\* typed name and age.
C26_ProfilesKept ==
    [][\A p \in profiles : p \in profiles']_vars

\* C25: in the provider flow a chat in VIEWING_OPTIONS, GETTING_DATE or
\* POST_VIEWING_CHOICE holds in its session data the id that passed its most
\* recent authenticate_doctor, display_records shows only appointments stored
\* under that id, and after a /start restart nothing is displayed until an
\* authentication succeeds again.
Authenticated == {"VIEWING_OPTIONS", "GETTING_DATE", "POST_VIEWING_CHOICE"}

C25_AuthenticatedIdentity ==
    [][\A s \in Providers :
          /\ (state[s] \notin Authenticated /\ state'[s] \in Authenticated) =>
                /\ state[s] = "AUTHENTICATING"
                /\ last'[s].h = "authenticate_doctor"
                /\ find_doctor_by_id(csv, last'[s].u.text) # {}
                /\ Get(user_data'[s], "doctor_id") = last'[s].u.text
          /\ (state[s] \in Authenticated /\ state'[s] \in Authenticated) =>
                /\ "doctor_id" \in DOMAIN user_data[s]
                /\ Get(user_data'[s], "doctor_id") = Get(user_data[s], "doctor_id")
          /\ (handled' = handled + 1 /\ last'[s].h = "start") =>
                state'[s] = "AUTHENTICATING"
          /\ sent'[s] # sent[s] =>
                /\ state[s] \in Authenticated
                /\ \A record \in Range(sent'[s].listed) :
                      \E row \in Range(AppointmentsCsvRows) :
                          /\ strip(row.DoctorID) = strip(Get(user_data[s], "doctor_id"))
                          /\ row.AppointmentDateTime = record.time
                          /\ row.PatientName = record.patient_name
                          /\ date(row.AppointmentDateTime) = sent'[s].day]_vars

\* a provider who was shown the two appointments of D1 restarted with /start
\* and authenticated again as "d1": the session holds "d1"
C25_Witness ==
    \E s \in Providers :
        /\ last[s].h = "authenticate_doctor"
        /\ last[s].out = "hello"
        /\ last[s].u.text = Txt("d1")
        /\ state[s] = "VIEWING_OPTIONS"
        /\ Get(user_data[s], "doctor_id") = Txt("d1")
        /\ sent[s].total = 2

====
